---- MODULE Spec2Model ----
(***************************************************************************)
(* Model of solver::stepper_adaptive_rk4 (stepper_adaptive_rk4.hpp) and of *)
(* numint::detail::ObserverDecimate / ObserverPrint (observer.hpp).        *)
(*                                                                         *)
(* Numbers.  The C++ code computes in double.  The model computes in exact *)
(* rational arithmetic: a number is a record [n, d, p2, p5] standing for   *)
(* (n / d) * 2^p2 * 5^p5, with gcd(n, d) = 1 and n, d coprime to 10 (zero  *)
(* is [0, 1, 0, 0]).  The form is canonical, so = on records is = on the   *)
(* numbers; it keeps 1e-15, 1e-12 and repeated halving within TLC's        *)
(* integers.  IEEE rounding, overflow, underflow and NaN are not modelled. *)
(* The one irrational operation, std::pow(x, 0.2), is rounded down to a    *)
(* multiple of 1/10 (see Pow02).                                           *)
(***************************************************************************)
EXTENDS Integers, Sequences, FiniteSets, TLC

VARIABLES
    _state,         \* stepper_adaptive_rk4::_state
    _tollerance,    \* stepper_adaptive_rk4::_tollerance
    _time_delta,    \* stepper_adaptive_rk4::_time_delta
    _time,          \* stepper_adaptive_rk4::_time
    _y0,            \* do_step's local _y0 (candidate A) at the end of the last call
    t_err,          \* do_step's local t_err at line 118 of the last call
    factor,         \* the clamped factor of line 118 of the last call, in tenths
    sys,            \* history: the system passed to each do_step since initialize
    pre,            \* history: _state, _time, _time_delta on entry to the last do_step
    ret,            \* the value the last operation returned ("none" for void)
    last,           \* the last operation called
    steps,          \* do_step calls since the last initialize (or construction)
    x0,             \* history: the state at the last initialize (or construction)
    t0,             \* history: the time at the last initialize (or construction)
    dt0,            \* history: the step size at the last initialize (or construction)
    dts,            \* history: the step size in effect at each do_step since then
    DECIMATION,     \* ObserverDecimate's template parameter
    decimation_cnt, \* ObserverDecimate::decimation_cnt
    observed,       \* the value returned by the last observe()
    calls           \* history: observe() invocations so far

vars == <<_state, _tollerance, _time_delta, _time, _y0, t_err, factor, sys, pre, ret,
          last, steps, x0, t0, dt0, dts, DECIMATION, decimation_cnt, observed, calls>>

stepperVars == <<_state, _tollerance, _time_delta, _time, _y0, t_err, factor, sys, pre,
                 ret, last, steps, x0, t0, dt0, dts>>

observerVars == <<DECIMATION, decimation_cnt, observed, calls>>

(***************************************************************************)
(* Bounds of the model.                                                    *)
(***************************************************************************)
\* do_step calls explored after each initialize (or construction)
MaxSteps == 3
\* longest state vector
MaxLen == 2
\* largest decimation factor
MaxDecimation == 4
\* observe() invocations explored
MaxCalls == 24

(***************************************************************************)
(* Evaluation.  Let1(v, LAMBDA x : e) is "LET x == v IN e" with v computed *)
(* once, before e; Let2 and Let3 bind two and three values.  TLC may       *)
(* otherwise recompute an operator's argument at each of its uses.         *)
(***************************************************************************)
Let1(v, Op(_)) == CHOOSE r \in {Op(x) : x \in {v}} : TRUE

Let2(v, w, Op(_, _)) == CHOOSE r \in {Op(x, y) : x \in {v}, y \in {w}} : TRUE

Let3(u, v, w, Op(_, _, _)) ==
    CHOOSE r \in {Op(x, y, z) : x \in {u}, y \in {v}, z \in {w}} : TRUE

(***************************************************************************)
(* Exact arithmetic.                                                       *)
(***************************************************************************)
AbsInt(i) == Let1(i, LAMBDA v : IF v < 0 THEN -v ELSE v)

MinInt(a, b) == Let2(a, b, LAMBDA x, y : IF x < y THEN x ELSE y)

RECURSIVE GCD(_, _)
GCD(a, b) == Let2(a, b, LAMBDA x, y : IF y = 0 THEN x ELSE GCD(y, x % y))

RECURSIVE IntPow(_, _)
IntPow(b, k) == Let1(k, LAMBDA j : IF j = 0 THEN 1 ELSE b * IntPow(b, j - 1))

\* the number of times q divides m (m # 0)
RECURSIVE Valuation(_, _)
Valuation(m, q) ==
    Let1(m, LAMBDA v : IF v % q = 0 THEN 1 + Valuation(v \div q, q) ELSE 0)

\* m with every factor q divided out (m # 0)
RECURSIVE Strip(_, _)
Strip(m, q) == Let1(m, LAMBDA v : IF v % q = 0 THEN Strip(v \div q, q) ELSE v)

Zero == [n |-> 0, d |-> 1, p2 |-> 0, p5 |-> 0]

\* the canonical record of (nn / dd) * 2^e2 * 5^e5, dd > 0
Norm(nn, dd, e2, e5) ==
    Let2(nn, dd, LAMBDA n0, d0 :
        IF n0 = 0 THEN Zero
        ELSE Let1(GCD(AbsInt(n0), d0), LAMBDA g :
             Let2(n0 \div g, d0 \div g, LAMBDA n1, d1 :
                 [n  |-> Strip(Strip(n1, 2), 5),
                  d  |-> Strip(Strip(d1, 2), 5),
                  p2 |-> e2 + Valuation(n1, 2) - Valuation(d1, 2),
                  p5 |-> e5 + Valuation(n1, 5) - Valuation(d1, 5)])))

FromInt(i) == Norm(i, 1, 0, 0)

\* m * 10^e, as the literal "m e e" is written in C++
Sci(m, e) == Norm(m, 1, e, e)

One == [n |-> 1, d |-> 1, p2 |-> 0, p5 |-> 0]

Two == [n |-> 1, d |-> 1, p2 |-> 1, p5 |-> 0]

Half == [n |-> 1, d |-> 1, p2 |-> -1, p5 |-> 0]

Neg(a) == Let1(a, LAMBDA x : [x EXCEPT !.n = -x.n])

AbsNum(a) == Let1(a, LAMBDA x : [x EXCEPT !.n = AbsInt(x.n)])

Mul(a, b) ==
    Let2(a, b, LAMBDA x, y :
        IF x.n = 0 \/ y.n = 0 THEN Zero
        ELSE Let2(GCD(AbsInt(x.n), y.d), GCD(AbsInt(y.n), x.d), LAMBDA g1, g2 :
                 [n  |-> (x.n \div g1) * (y.n \div g2),
                  d  |-> (x.d \div g2) * (y.d \div g1),
                  p2 |-> x.p2 + y.p2,
                  p5 |-> x.p5 + y.p5]))

\* 1 / a, a # 0
Inv(a) ==
    Let1(a, LAMBDA x :
        [n  |-> IF x.n < 0 THEN -x.d ELSE x.d,
         d  |-> AbsInt(x.n),
         p2 |-> -x.p2,
         p5 |-> -x.p5])

Div(a, b) == Mul(a, Inv(b))

Add(a, b) ==
    Let2(a, b, LAMBDA x, y :
        IF x.n = 0 THEN y
        ELSE IF y.n = 0 THEN x
        ELSE Let3(MinInt(x.p2, y.p2), MinInt(x.p5, y.p5),
                  (x.d \div GCD(x.d, y.d)) * y.d, LAMBDA m2, m5, l :
                 Norm(x.n * IntPow(2, x.p2 - m2) * IntPow(5, x.p5 - m5) * (l \div x.d)
                        + y.n * IntPow(2, y.p2 - m2) * IntPow(5, y.p5 - m5) * (l \div y.d),
                      l, m2, m5)))

Sub(a, b) == Add(a, Neg(b))

\* ceil(p / q^k) and floor(p / q^k) for p >= 0, without forming q^k
RECURSIVE CeilDivPow(_, _, _)
CeilDivPow(p, q, k) ==
    Let2(p, k, LAMBDA v, j :
        IF j = 0 \/ v <= 1 THEN v ELSE CeilDivPow((v + q - 1) \div q, q, j - 1))

RECURSIVE FloorDivPow(_, _, _)
FloorDivPow(p, q, k) ==
    Let2(p, k, LAMBDA v, j :
        IF j = 0 \/ v = 0 THEN v ELSE FloorDivPow(v \div q, q, j - 1))

\* Integers beyond TLC's: little-endian sequences of digits in base 10000.
RECURSIVE ToBig(_)
ToBig(p) ==
    Let1(p, LAMBDA v : IF v = 0 THEN <<>> ELSE <<v % 10000>> \o ToBig(v \div 10000))

\* big * m + carry, for 0 <= m, carry < 10000
RECURSIVE BigMulSmall(_, _, _)
BigMulSmall(big, m, carry) ==
    Let2(big, carry, LAMBDA g, c :
        IF g = <<>> THEN ToBig(c)
        ELSE Let1(Head(g) * m + c, LAMBDA v :
                 <<v % 10000>> \o BigMulSmall(Tail(g), m, v \div 10000)))

RECURSIVE BigMulPow(_, _, _)
BigMulPow(big, m, k) ==
    Let2(big, k, LAMBDA g, j :
        IF j = 0 THEN g ELSE BigMulPow(BigMulSmall(g, m, 0), m, j - 1))

\* a <= b, comparing from the most significant digit (index i) down
RECURSIVE BigLeqFrom(_, _, _)
BigLeqFrom(a, b, i) ==
    Let1(i, LAMBDA j :
        IF j = 0 THEN TRUE
        ELSE IF a[j] # b[j] THEN a[j] < b[j]
        ELSE BigLeqFrom(a, b, j - 1))

BigLeq(a, b) ==
    Let2(a, b, LAMBDA x, y :
        IF Len(x) # Len(y) THEN Len(x) < Len(y) ELSE BigLeqFrom(x, y, Len(x)))

\* p * 2^x * 5^y <= q for integers p >= 1, q >= 0 and any integers x, y
LeqScaled(p, q, x, y) ==
    IF x >= 0 /\ y >= 0
        THEN p <= FloorDivPow(FloorDivPow(q, 2, x), 5, y)
    ELSE IF x <= 0 /\ y <= 0
        THEN CeilDivPow(CeilDivPow(p, 2, -x), 5, -y) <= q
    ELSE IF x > 0
        THEN BigLeq(BigMulPow(ToBig(p), 2, x), BigMulPow(ToBig(q), 5, -y))
    ELSE BigLeq(BigMulPow(ToBig(p), 5, y), BigMulPow(ToBig(q), 2, -x))

\* a <= b for a > 0, b >= 0 of any magnitudes
Leq(a, b) ==
    Let2(a, b, LAMBDA x, y :
        Let2(x.p2 - y.p2, x.p5 - y.p5, LAMBDA e2, e5 :
            LeqScaled(x.n * y.d, y.n * x.d, e2, e5)))

\* a < b
Less(a, b) ==
    Let2(a, b, LAMBDA x, y :
        IF x.n < 0 /\ y.n >= 0 THEN TRUE
        ELSE IF x.n >= 0 /\ y.n <= 0 THEN FALSE
        ELSE IF x.n = 0 THEN TRUE
        ELSE IF x.n > 0 THEN ~Leq(y, x)
        ELSE ~Leq(AbsNum(x), AbsNum(y)))

(***************************************************************************)
(* State vectors and systems.  A system is the callable passed to do_step: *)
(* system(x, dxdt, t) writes the derivative of x at time t into dxdt.      *)
(***************************************************************************)
VAdd(x, y) == Let2(x, y, LAMBDA u, v : [i \in 1..Len(u) |-> Add(u[i], v[i])])

VScale(c, v) == Let2(c, v, LAMBDA k, u : [i \in 1..Len(u) |-> Mul(k, u[i])])

Systems == {"zero", "switch", "relay"}

\* the derivative the system writes for state x at time t:
\*   zero    dx/dt = 0
\*   switch  dx_i/dt = 0 before t = 1 and the constant i from then on
\*   relay   dx_i/dt = 2 while x_i < 1 and -1 otherwise
F(system, x, t) ==
    Let2(x, t, LAMBDA u, s :
        [i \in 1..Len(u) |->
            CASE system = "zero"   -> Zero
              [] system = "switch" -> IF Less(s, One) THEN Zero ELSE FromInt(i)
              [] system = "relay"  -> IF Less(u[i], One) THEN Two ELSE Neg(One)])

(***************************************************************************)
(* stepper_rk4::do_step(system, x, t, dt): the classical fourth-order      *)
(* Runge-Kutta step, the single-step integrator of the design (section     *)
(* 4.1): derivative samples at t, t + dt/2 (twice) and t + dt, combined    *)
(* with the fixed weights 1/6, 2/6, 2/6, 1/6; x is overwritten with the    *)
(* estimate at t + dt.                                                     *)
(***************************************************************************)
RK4(system, xin, tin, dtin) ==
    Let3(xin, tin, dtin, LAMBDA x, t, dt :
    Let1(Mul(dt, Half), LAMBDA h2 :
    Let1(F(system, x, t), LAMBDA k1 :
    Let1(F(system, VAdd(x, VScale(h2, k1)), Add(t, h2)), LAMBDA k2 :
    Let1(F(system, VAdd(x, VScale(h2, k2)), Add(t, h2)), LAMBDA k3 :
    Let1(F(system, VAdd(x, VScale(dt, k3)), Add(t, dt)), LAMBDA k4 :
        VAdd(x, VScale(Div(dt, FromInt(6)),
                       VAdd(VAdd(k1, VScale(Two, k2)), VAdd(VScale(Two, k3), k4))))))))))

(***************************************************************************)
(* stepper_adaptive_rk4::do_step(system), piece by piece.                  *)
(***************************************************************************)
\* lines 75-77: _y0 = _state; _stepper1.do_step(system, _y0, _time, _time_delta)
CandidateA(system, x, t, dt) == RK4(system, x, t, dt)

\* CandidateB with the second half step started at t instead of t + dt * 0.5
CandidateBSameTime(system, x, t, dt) ==
    Let1(Mul(dt, Half), LAMBDA h : RK4(system, RK4(system, x, t, h), t, h))

\* lines 81-82: two half steps on _state, the second from t + dt * 0.5
CandidateB(system, x, t, dt) ==
    Let1(Mul(dt, Half), LAMBDA h : RK4(system, RK4(system, x, t, h), Add(t, h), h))

\* NextTime advancing by the half step of lines 81-82
NextTimeHalf(t, dt) == Add(t, Mul(dt, Half))

\* line 85: _time += _time_delta
NextTime(t, dt) == Add(t, dt)

\* TruncErr accumulating the sum of the component errors instead of their maximum
RECURSIVE TruncErrSum(_, _, _, _)
TruncErrSum(x, y, i, acc) ==
    Let2(i, acc, LAMBDA j, a :
        IF j > Len(x) THEN a
        ELSE Let1(AbsNum(Sub(x[j], y[j])), LAMBDA err :
                 TruncErrSum(x, y, j + 1, Add(a, err))))

\* lines 88-96 (flag == 0): the loop from index i on, acc the running t_err
RECURSIVE TruncErr(_, _, _, _)
TruncErr(x, y, i, acc) ==
    Let2(i, acc, LAMBDA j, a :
        IF j > Len(x) THEN a
        ELSE Let1(AbsNum(Sub(x[j], y[j])), LAMBDA err :
                 TruncErr(x, y, j + 1, IF Less(a, err) THEN err ELSE a)))

\* line 115: the constant 1.e-15
ErrFloor == [n |-> 1, d |-> 1, p2 |-> -15, p5 |-> -15]

\* FloorErr with the guard of lines 114-115 left out
FloorErrNone(e) == e

\* lines 114-115: if (t_err == 0.) t_err = 1.e-15
FloorErr(e) == Let1(e, LAMBDA v : IF v = Zero THEN ErrFloor ELSE v)

\* the largest k in lo..hi-1 with (k / 10)^5 <= r, given (lo / 10)^5 <= r
RECURSIVE FifthRoot(_, _, _)
FifthRoot(r, lo, hi) ==
    Let2(lo, hi, LAMBDA l, h :
        IF h = l + 1 THEN l
        ELSE Let1((l + h) \div 2, LAMBDA m :
                 IF Leq(Norm(IntPow(m, 5), 1, -5, -5), r)
                     THEN FifthRoot(r, m, h)
                     ELSE FifthRoot(r, l, m)))

\* line 118: std::pow(_tollerance / (2 * t_err), 0.2), in tenths, rounded down:
\* the largest k with (k / 10)^5 <= tol / (2 * e).  Values of 2.0 and above
\* (and the +infinity of a division by zero) are reported as 2.0.
Pow02(tol, e) ==
    IF e = Zero THEN 20
    ELSE Let1(Div(tol, Mul(Two, e)), LAMBDA r : FifthRoot(r, 0, 21))

\* line 118: the clamp bounds 0.3 and 1.5, in tenths
ClampLo == 3

ClampHi == 15

\* Clamp without std::max(., 0.3)
ClampNoLower(p) == Let1(p, LAMBDA v : IF ClampHi < v THEN ClampHi ELSE v)

\* Clamp without std::min(., 1.5)
ClampNoUpper(p) == Let1(p, LAMBDA v : IF v < ClampLo THEN ClampLo ELSE v)

\* line 118: std::min(std::max(p, 0.3), 1.5), in tenths
Clamp(p) ==
    Let1(p, LAMBDA v :
        Let1(IF v < ClampLo THEN ClampLo ELSE v, LAMBDA m :
            IF ClampHi < m THEN ClampHi ELSE m))

\* NextTimeDelta without the safety factor 0.9
NextTimeDeltaNoSafety(dt, f) == Mul(dt, Sci(f, -1))

\* line 118: 0.9 * _time_delta * factor
NextTimeDelta(dt, f) == Mul(Mul(Sci(9, -1), dt), Sci(f, -1))

(***************************************************************************)
(* Inputs explored.                                                        *)
(***************************************************************************)
\* tolerances passed to the constructor: the default 0.0001, 2e-14 and 1e-15
Tolerances == {Sci(1, -4), Sci(2, -14), Sci(1, -15)}

\* the state vectors passed to initialize: one of each length up to MaxLen,
\* <<>>, <<1>>, <<1, 3/4>>, <<1, 3/4, 1/2>>, ...
InitialStates == {[i \in 1..k |-> Sci(100 - 25 * ((i - 1) % 4), -2)] : k \in 0..MaxLen}

InitialTimes == {Zero, Sci(5, -1)}

InitialTimeDeltas == {One, Sci(1, -1)}

(***************************************************************************)
(* The stepper's operations.                                               *)
(***************************************************************************)
\* lines 22-31: stepper_adaptive_rk4(tollerance)
StepperInit ==
    /\ _tollerance \in Tolerances
    /\ _state = <<>>
    /\ _time_delta = Sci(1, -12)
    /\ _time = Zero
    /\ _y0 = <<>>
    /\ t_err = Zero
    /\ factor = 0
    /\ sys = <<>>
    /\ pre = "none"
    /\ ret = "none"
    /\ last = "construct"
    /\ steps = 0
    /\ x0 = <<>>
    /\ t0 = Zero
    /\ dt0 = Sci(1, -12)
    /\ dts = <<>>

\* initialize also resetting the tolerance to the constructor's default
initializeResettingTolerance ==
    \E state \in InitialStates, time \in InitialTimes, time_delta \in InitialTimeDeltas :
        /\ _state' = state
        /\ _time' = time
        /\ _time_delta' = time_delta
        /\ _tollerance' = Sci(1, -4)
        /\ last' = "initialize"
        /\ steps' = 0
        /\ x0' = state
        /\ t0' = time
        /\ dt0' = time_delta
        /\ dts' = <<>>
        /\ _y0' = <<>>
        /\ t_err' = Zero
        /\ factor' = 0
        /\ sys' = <<>>
        /\ pre' = "none"
        /\ ret' = "none"
        /\ UNCHANGED observerVars

\* lines 39-44: initialize(state, time, time_delta)
initialize ==
    \E state \in InitialStates, time \in InitialTimes, time_delta \in InitialTimeDeltas :
        /\ _state' = state
        /\ _time' = time
        /\ _time_delta' = time_delta
        /\ last' = "initialize"
        /\ steps' = 0
        /\ x0' = state
        /\ t0' = time
        /\ dt0' = time_delta
        /\ dts' = <<>>
        /\ _y0' = <<>>
        /\ t_err' = Zero
        /\ factor' = 0
        /\ sys' = <<>>
        /\ pre' = "none"
        /\ ret' = "none"
        /\ UNCHANGED _tollerance
        /\ UNCHANGED observerVars

\* lines 46-49: current_state()
current_state ==
    /\ ret' = _state
    /\ last' = "current_state"
    /\ UNCHANGED <<_state, _tollerance, _time_delta, _time, _y0, t_err, factor, sys,
                   pre, steps, x0, t0, dt0, dts>>
    /\ UNCHANGED observerVars

\* lines 51-54: current_time_step()
current_time_step ==
    /\ ret' = _time_delta
    /\ last' = "current_time_step"
    /\ UNCHANGED <<_state, _tollerance, _time_delta, _time, _y0, t_err, factor, sys,
                   pre, steps, x0, t0, dt0, dts>>
    /\ UNCHANGED observerVars

\* lines 56-59: current_time()
current_time ==
    /\ ret' = _time
    /\ last' = "current_time"
    /\ UNCHANGED <<_state, _tollerance, _time_delta, _time, _y0, t_err, factor, sys,
                   pre, steps, x0, t0, dt0, dts>>
    /\ UNCHANGED observerVars

\* DoStep with line 85 moved after line 118: the time advances by the new step size
DoStepTimeAfter(system) ==
    /\ steps < MaxSteps
    /\ \E A \in {CandidateA(system, _state, _time, _time_delta)},
          B \in {CandidateB(system, _state, _time, _time_delta)} :
          \E e \in {FloorErr(TruncErr(B, A, 1, Zero))} :
              \E f \in {Clamp(Pow02(_tollerance, e))} :
                  /\ _y0' = A
                  /\ _state' = B
                  /\ _time' = NextTime(_time, NextTimeDelta(_time_delta, f))
                  /\ t_err' = e
                  /\ factor' = f
                  /\ _time_delta' = NextTimeDelta(_time_delta, f)
    /\ sys' = Append(sys, system)
    /\ pre' = [state |-> _state, time |-> _time, time_delta |-> _time_delta]
    /\ last' = "do_step"
    /\ steps' = steps + 1
    /\ dts' = Append(dts, _time_delta)
    /\ ret' = "none"
    /\ UNCHANGED <<_tollerance, x0, t0, dt0>>
    /\ UNCHANGED observerVars

\* lines 72-119: do_step(system)
DoStep(system) ==
    /\ steps < MaxSteps
    /\ \E A \in {CandidateA(system, _state, _time, _time_delta)},
          B \in {CandidateB(system, _state, _time, _time_delta)} :
          \E e \in {FloorErr(TruncErr(B, A, 1, Zero))} :
              \E f \in {Clamp(Pow02(_tollerance, e))} :
                  /\ _y0' = A
                  /\ _state' = B
                  /\ _time' = NextTime(_time, _time_delta)
                  /\ t_err' = e
                  /\ factor' = f
                  /\ _time_delta' = NextTimeDelta(_time_delta, f)
    /\ sys' = Append(sys, system)
    /\ pre' = [state |-> _state, time |-> _time, time_delta |-> _time_delta]
    /\ last' = "do_step"
    /\ steps' = steps + 1
    /\ dts' = Append(dts, _time_delta)
    /\ ret' = "none"
    /\ UNCHANGED <<_tollerance, x0, t0, dt0>>
    /\ UNCHANGED observerVars

do_step == \E system \in Systems : DoStep(system)

(***************************************************************************)
(* ObserverDecimate<State, Time, DECIMATION>.                              *)
(***************************************************************************)
\* lines 164-173, 191: the template parameter and decimation_cnt{}
ObserverInit ==
    /\ DECIMATION \in 0..MaxDecimation
    /\ decimation_cnt = 0
    /\ observed = FALSE
    /\ calls = 0

\* observe comparing before incrementing (decimation_cnt++ == DECIMATION)
observePostIncrement ==
    /\ calls < MaxCalls
    /\ calls' = calls + 1
    /\ IF DECIMATION = 0
           THEN observed' = TRUE /\ decimation_cnt' = decimation_cnt
       ELSE IF decimation_cnt = DECIMATION
           THEN observed' = TRUE /\ decimation_cnt' = 0
       ELSE observed' = FALSE /\ decimation_cnt' = decimation_cnt + 1
    /\ UNCHANGED DECIMATION
    /\ UNCHANGED stepperVars

\* lines 177-187: observe(), as ObserverPrint::operator() calls it (line 204)
observe ==
    /\ calls < MaxCalls
    /\ calls' = calls + 1
    /\ IF DECIMATION = 0
           THEN observed' = TRUE /\ decimation_cnt' = decimation_cnt
       ELSE IF decimation_cnt + 1 = DECIMATION
           THEN observed' = TRUE /\ decimation_cnt' = 0
       ELSE observed' = FALSE /\ decimation_cnt' = decimation_cnt + 1
    /\ UNCHANGED DECIMATION
    /\ UNCHANGED stepperVars

(***************************************************************************)
(* Specifications: the stepper driven by a caller, and the observer.       *)
(***************************************************************************)
ObserverIdle ==
    /\ DECIMATION = 0
    /\ decimation_cnt = 0
    /\ observed = FALSE
    /\ calls = 0

Init == StepperInit /\ ObserverIdle

Next ==
    \/ initialize
    \/ current_state
    \/ current_time_step
    \/ current_time
    \/ do_step

Spec == Init /\ [][Next]_vars

InitObs == StepperInit /\ ObserverInit

NextObs == observe

SpecObs == InitObs /\ [][NextObs]_vars

(***************************************************************************)
(* Properties.                                                             *)
(***************************************************************************)
\* do_step has been called since the last initialize (or construction)
Called == Len(sys) > 0

\* the system of the last do_step
LastSys == sys[Len(sys)]

\* every do_step since the last initialize integrated dx/dt = 0
AllZero == \A i \in 1..Len(sys) : sys[i] = "zero"

\* t plus the elements i.. of the sequence q, added in order
RECURSIVE SumFrom(_, _, _)
SumFrom(t, q, i) ==
    Let2(t, i, LAMBDA a, j : IF j > Len(q) THEN a ELSE SumFrom(Add(a, q[j]), q, j + 1))

\* the per-component differences of the two candidates of the last do_step
CandidateErrors == {AbsNum(Sub(_state[i], _y0[i])) : i \in 1..Len(_state)}

C2_ClampBound ==
    Called => /\ Leq(Mul(Sci(27, -2), pre.time_delta), _time_delta)
              /\ Leq(_time_delta, Mul(Sci(135, -2), pre.time_delta))

\* one run has hit both ends: a step at ratio 0.27, then one at ratio 1.35
C2_Witness ==
    /\ steps >= 2
    /\ dts[2] = Mul(Sci(27, -2), dts[1])
    /\ _time_delta = Mul(Sci(135, -2), pre.time_delta)

\* C3: the time is the initial time plus the step sizes in effect on entry to
\* each do_step, and each do_step advances it by exactly that step size, so
\* it never decreases.
C3_TimeAccumulation ==
    /\ _time = SumFrom(t0, dts, 1)
    /\ ~Less(_time, t0)
    /\ Called => /\ _time = Add(pre.time, pre.time_delta)
                 /\ Less(pre.time, _time)

\* two calls with different step sizes from a non-zero initial time
C3_Witness == steps >= 2 /\ t0 # Zero /\ dts[2] # dts[1] /\ _time_delta # dts[2]

\* C4: while only dx/dt = 0 has been integrated, the state is the initial
\* state, and after the first call the time is the initial time plus the
\* initial step size.
C4_ExactSolution ==
    AllZero => /\ _state = x0
               /\ steps = 1 => _time = Add(t0, dt0)

\* two calls on a two-component state
C4_Witness == AllZero /\ steps >= 2 /\ Len(_state) = 2 /\ _state = x0

\* C5: after every do_step, the error used in the step-size formula is
\* 1e-15 when the two candidates are identical, and 2 * t_err is never zero.
C5_ErrorFloor ==
    Called => /\ _y0 = _state => t_err = ErrFloor
              /\ Mul(Two, t_err) # Zero

\* identical candidates that differ from the state before the call
C5_Witness ==
    Called /\ _y0 = _state /\ _state # pre.state /\ _state # <<>> /\ t_err = ErrFloor

\* C6 as stated: integrating dx/dt = 0, every do_step floors the error and
\* grows the step size at the clamp ceiling, for any positive tolerance.
C6_Original ==
    (Called /\ LastSys = "zero") =>
        /\ t_err = ErrFloor
        /\ factor = ClampHi
        /\ _time_delta = Mul(Sci(135, -2), pre.time_delta)
        /\ Less(pre.time_delta, _time_delta)

\* the least tolerance whose factor reaches the ceiling: 2 * 1e-15 * 1.5^5
GrowthThreshold == Mul(Mul(Two, ErrFloor), Sci(759375, -5))

\* C6, amended: integrating dx/dt = 0 with a tolerance of at least
\* 2 * 1e-15 * 1.5^5, every do_step floors the error and grows the step size
\* at the clamp ceiling: new_dt = 0.9 * 1.5 * old_dt > old_dt.
C6_GrowthAboveThreshold ==
    (Called /\ LastSys = "zero" /\ Leq(GrowthThreshold, _tollerance)) =>
        /\ t_err = ErrFloor
        /\ factor = ClampHi
        /\ _time_delta = Mul(Sci(135, -2), pre.time_delta)
        /\ Less(pre.time_delta, _time_delta)

\* a second call on dx/dt = 0 with the tolerance next above the threshold
C6_Witness ==
    /\ steps >= 2
    /\ AllZero
    /\ _tollerance = Sci(2, -14)
    /\ _state # <<>>
    /\ factor = ClampHi

\* C7: an accessor returns its field and changes no session field; the same
\* accessor called again returns the same value; no operation changes the
\* tolerance.
C7_AccessorFrame ==
    [][/\ _tollerance' = _tollerance
       /\ last' \in {"current_state", "current_time", "current_time_step"} =>
              /\ <<_state, _time, _time_delta>>' = <<_state, _time, _time_delta>>
              /\ last' = last => ret' = ret
       /\ last' = "current_state" => ret' = _state
       /\ last' = "current_time" => ret' = _time
       /\ last' = "current_time_step" => ret' = _time_delta]_vars

\* an accessor called after a step of a session constructed with a
\* non-default tolerance
C7_Witness ==
    /\ last = "current_time_step"
    /\ ret = _time_delta
    /\ steps >= 1
    /\ _tollerance = Sci(1, -15)

C9_InfinityNorm ==
    Called =>
        IF CandidateErrors \subseteq {Zero}
            THEN t_err = ErrFloor
            ELSE /\ t_err \in CandidateErrors
                 /\ \A e \in CandidateErrors : ~Less(t_err, e)

\* two different non-zero component errors, the first the larger
C9_Witness ==
    /\ Called
    /\ Len(_state) = 2
    /\ Zero \notin CandidateErrors
    /\ Less(AbsNum(Sub(_state[2], _y0[2])), AbsNum(Sub(_state[1], _y0[1])))
    /\ t_err = AbsNum(Sub(_state[1], _y0[1]))

\* C10: with DECIMATION = N >= 1, observe() returns true exactly on the
\* N-th, 2N-th, ... invocation and the counter stays in 0..N-1; with
\* DECIMATION = 0 every invocation returns true and the counter is untouched.
C10_Decimation ==
    IF DECIMATION = 0
        THEN decimation_cnt = 0 /\ (calls > 0 => observed)
        ELSE /\ decimation_cnt \in 0..(DECIMATION - 1)
             /\ decimation_cnt = calls % DECIMATION
             /\ calls > 0 => (observed <=> calls % DECIMATION = 0)

\* the second report of a factor-3 observer
C10_Witness == DECIMATION = 3 /\ calls = 6 /\ observed /\ decimation_cnt = 0

====
